---------------------------- MODULE Spec2Model ----------------------------
(* chunk_textbook.py: semantic + size-constrained chunking of a text file.  *)
(* A Python str is a sequence of one-character strings; Optional[str] is    *)
(* None (the empty tuple) or Some(s) (the one-element tuple holding s).     *)
EXTENDS Integers, Sequences, FiniteSets, TLC

(***************************************************************************)
(* Bounds of the model                                                     *)
(***************************************************************************)
\* longest input file, in lines, of the main pipeline
MaxLines == 4
\* longest input, in lines, handed to build_semantic_segments alone
MaxSegLines == 4
\* largest --min-words / --max-words value
MaxWords == 3
\* most whitespace-separated tokens in a line handed to classify_heading
MaxTokens == 3

(***************************************************************************)
(* Characters and the str methods the program uses                         *)
(***************************************************************************)
NL == "\n"
SP == " "
UPPER ==
    <<"A", "B", "C", "D", "E", "F", "G", "H", "I", "J", "K", "L", "M",
      "N", "O", "P", "Q", "R", "S", "T", "U", "V", "W", "X", "Y", "Z">>
LOWER ==
    <<"a", "b", "c", "d", "e", "f", "g", "h", "i", "j", "k", "l", "m",
      "n", "o", "p", "q", "r", "s", "t", "u", "v", "w", "x", "y", "z">>
DIGITS == {"0", "1", "2", "3", "4", "5", "6", "7", "8", "9"}

IsSpace(c) == c \in {" ", "\t", "\n", "\r", "\f"}
IsDigit(c) == c \in DIGITS
IsUpper(c) == \E i \in 1..26 : UPPER[i] = c
IsLower(c) == \E i \in 1..26 : LOWER[i] = c
\* \w of the re module
IsWordChar(c) == IsUpper(c) \/ IsLower(c) \/ IsDigit(c) \/ c = "_"
\* re.IGNORECASE compares case-folded characters
Fold(c) == IF IsUpper(c) THEN LOWER[CHOOSE i \in 1..26 : UPPER[i] = c] ELSE c

None == << >>
Some(s) == << s >>

RECURSIVE Join(_, _)
\* sep.join(list)
Join(sep, ss) ==
    IF ss = << >> THEN << >>
    ELSE IF Len(ss) = 1 THEN ss[1]
    ELSE ss[1] \o sep \o Join(sep, Tail(ss))

\* first index >= i of s that holds no whitespace, Len(s)+1 when there is none
SkipSpace(s, i) ==
    IF \E j \in i..Len(s) : ~IsSpace(s[j])
    THEN CHOOSE j \in i..Len(s) : ~IsSpace(s[j]) /\ \A k \in i..(j - 1) : IsSpace(s[k])
    ELSE Len(s) + 1

\* first index >= i of s that holds whitespace, Len(s)+1 when there is none
SkipWord(s, i) ==
    IF \E j \in i..Len(s) : IsSpace(s[j])
    THEN CHOOSE j \in i..Len(s) : IsSpace(s[j]) /\ \A k \in i..(j - 1) : ~IsSpace(s[k])
    ELSE Len(s) + 1

\* first index >= i of s that holds no digit, Len(s)+1 when there is none
SkipDigits(s, i) ==
    IF \E j \in i..Len(s) : ~IsDigit(s[j])
    THEN CHOOSE j \in i..Len(s) : ~IsDigit(s[j]) /\ \A k \in i..(j - 1) : IsDigit(s[k])
    ELSE Len(s) + 1

\* str.strip()
strip(s) ==
    LET a == SkipSpace(s, 1)
    IN  IF a > Len(s) THEN << >>
        ELSE SubSeq(s, a, CHOOSE b \in a..Len(s) :
                              ~IsSpace(s[b]) /\ \A k \in (b + 1)..Len(s) : IsSpace(s[k]))

\* str.rstrip("\n")
rstrip_nl(s) ==
    IF \A k \in 1..Len(s) : s[k] = NL THEN << >>
    ELSE SubSeq(s, 1, CHOOSE b \in 1..Len(s) :
                          s[b] # NL /\ \A k \in (b + 1)..Len(s) : s[k] = NL)

RECURSIVE SplitFrom(_, _)
SplitFrom(s, i) ==
    LET a == SkipSpace(s, i)
    IN  IF a > Len(s) THEN << >>
        ELSE LET b == SkipWord(s, a)
             IN  << SubSeq(s, a, b - 1) >> \o SplitFrom(s, b)

\* str.split(): the maximal runs of non-whitespace, in order
split(s) == SplitFrom(s, 1)

\* s[i..i+Len(w)-1] equals w when both are case-folded
MatchesFoldedAt(s, i, w) ==
    /\ i >= 1
    /\ i + Len(w) - 1 <= Len(s)
    /\ \A k \in 1..Len(w) : Fold(s[i + k - 1]) = Fold(w[k])


(***************************************************************************)
(* The three heading patterns                                              *)
(***************************************************************************)
GLOSSARY_WORD == <<"g", "l", "o", "s", "s", "a", "r", "y">>
CHAPTER_WORD == <<"c", "h", "a", "p", "t", "e", "r">>
GLOSSARY_LABEL == <<"G", "l", "o", "s", "s", "a", "r", "y">>
CHAPTER_PREFIX == <<"C", "h", "a", "p", "t", "e", "r", " ">>

\* GLOSSARY_RE.search(s): \bGLOSSARY\b anywhere, ignoring case
GLOSSARY_RE(s) ==
    \E i \in 1..Len(s) :
        /\ MatchesFoldedAt(s, i, GLOSSARY_WORD)
        /\ (i = 1 \/ ~IsWordChar(s[i - 1]))
        /\ (i + Len(GLOSSARY_WORD) > Len(s) \/ ~IsWordChar(s[i + Len(GLOSSARY_WORD)]))

\* CHAPTER_RE.match(s): ^\s*CHAPTER\s+(\d+)\. ignoring case; None, or Some(group 1)
CHAPTER_RE(s) ==
    LET a == SkipSpace(s, 1)
        b == a + Len(CHAPTER_WORD)
        c == SkipSpace(s, b)
        d == SkipDigits(s, c)
    IN  IF /\ MatchesFoldedAt(s, a, CHAPTER_WORD)
           /\ b <= Len(s) /\ IsSpace(s[b])
           /\ d > c
           /\ d <= Len(s) /\ s[d] = "."
        THEN Some(SubSeq(s, c, d - 1))
        ELSE None

RECURSIVE DottedEnd(_, _)
\* the end of the greedy (?:\.\d+)* that starts at p
DottedEnd(s, p) ==
    IF p + 1 <= Len(s) /\ s[p] = "." /\ IsDigit(s[p + 1])
    THEN DottedEnd(s, SkipDigits(s, p + 1))
    ELSE p

\* SECTION_RE.match(s): ^\s*(\d+(?:\.\d+)+)\s+(.+)$ ; None, or <<group 1, group 2>>
SECTION_RE(s) ==
    LET a == SkipSpace(s, 1)
        b == SkipDigits(s, a)
        e == DottedEnd(s, b)
        q == SkipSpace(s, e)
        \* $ is the end of s, or the place before a newline that ends s
        last == IF Len(s) > 0 /\ s[Len(s)] = NL THEN Len(s) - 1 ELSE Len(s)
        \* where (.+) may start: after one or more of the whitespace characters
        starts == {k \in (e + 1)..q : k <= last /\ \A j \in k..last : s[j] # NL}
    IN  IF /\ b > a
           /\ e > b
           /\ e <= Len(s) /\ IsSpace(s[e])
           /\ starts # {}
        THEN LET k == CHOOSE x \in starts : \A y \in starts : y <= x
             IN  << SubSeq(s, a, e - 1), SubSeq(s, k, last) >>
        ELSE None

(***************************************************************************)
(* classify_heading                                                        *)
(***************************************************************************)
NotHeading == << None, None, None >>

\* a plausible slip: the chapter pattern is tried before the glossary pattern
classify_heading_chapter_first(line, current_chapter) ==
    LET stripped == strip(line)
        m_ch == CHAPTER_RE(stripped)
        m_sec == SECTION_RE(stripped)
    IN  IF m_ch # None
        THEN << m_ch, None, Some(CHAPTER_PREFIX \o m_ch[1]) >>
        ELSE IF GLOSSARY_RE(stripped)
        THEN << Some(GLOSSARY_LABEL), None, Some(GLOSSARY_LABEL) >>
        ELSE IF m_sec # None
        THEN << current_chapter, Some(m_sec[1]), Some(strip(m_sec[2])) >>
        ELSE NotHeading

\* (chapter, section, heading) of a heading line, (None, None, None) otherwise
classify_heading(line, current_chapter) ==
    LET stripped == strip(line)
        m_ch == CHAPTER_RE(stripped)
        m_sec == SECTION_RE(stripped)
    IN  IF GLOSSARY_RE(stripped)
        THEN << Some(GLOSSARY_LABEL), None, Some(GLOSSARY_LABEL) >>
        ELSE IF m_ch # None
        THEN << m_ch, None, Some(CHAPTER_PREFIX \o m_ch[1]) >>
        ELSE IF m_sec # None
        THEN << current_chapter, Some(m_sec[1]), Some(strip(m_sec[2])) >>
        ELSE NotHeading

(***************************************************************************)
(* Segment                                                                 *)
(***************************************************************************)
Segment(start_line, end_line, chapter, section, heading, text_lines) ==
    [start_line |-> start_line, end_line |-> end_line, chapter |-> chapter,
     section |-> section, heading |-> heading, text_lines |-> text_lines]

RECURSIVE StrippedNonBlank(_)
\* [line.strip() for line in text_lines if line.strip()]
StrippedNonBlank(text_lines) ==
    IF text_lines = << >> THEN << >>
    ELSE LET t == strip(Head(text_lines))
         IN  (IF t # << >> THEN << t >> ELSE << >>) \o StrippedNonBlank(Tail(text_lines))

\* Segment.text
text(seg) == Join(<< SP >>, StrippedNonBlank(seg.text_lines))

\* Segment.word_count
word_count(seg) == IF text(seg) = << >> THEN 0 ELSE Len(split(text(seg)))

(***************************************************************************)
(* build_semantic_segments                                                 *)
(***************************************************************************)
\* the locals of build_semantic_segments before its loop
SegInit ==
    [segments |-> << >>, current_chapter |-> None, current_section |-> None,
     current_heading |-> None, current_lines |-> << >>, current_start_line |-> 1]

\* a plausible slip: the closed segment ends at the heading line itself
CloseSegment_end_at_idx(st, end_line) ==
    IF st.current_lines # << >>
    THEN [st EXCEPT !.segments = Append(@, Segment(st.current_start_line, end_line + 1,
                                        st.current_chapter, st.current_section,
                                        st.current_heading, st.current_lines)),
                    !.current_lines = << >>]
    ELSE st

\* "if current_lines: segments.append(Segment(...))", with the tracked labels
CloseSegment(st, end_line) ==
    IF st.current_lines # << >>
    THEN [st EXCEPT !.segments = Append(@, Segment(st.current_start_line, end_line,
                                        st.current_chapter, st.current_section,
                                        st.current_heading, st.current_lines)),
                    !.current_lines = << >>]
    ELSE st

\* a plausible slip: the section outlives a change of chapter
UpdateContext_keep_section(st, cls) ==
    LET chapter == cls[1]
        section == cls[2]
        heading == cls[3]
    IN  [st EXCEPT
            !.current_chapter = IF chapter # None THEN chapter ELSE @,
            !.current_section = IF section # None THEN section ELSE @,
            !.current_heading = IF heading # None THEN heading ELSE @]

\* "Update chapter/section/heading context" from a heading line's classification
UpdateContext(st, cls) ==
    LET chapter == cls[1]
        section == cls[2]
        heading == cls[3]
    IN  [st EXCEPT
            !.current_chapter = IF chapter # None THEN chapter ELSE @,
            !.current_section = IF section # None THEN section
                                ELSE IF chapter # None THEN None ELSE @,
            !.current_heading = IF heading # None THEN heading ELSE @]

\* a plausible slip: "current_start_line = idx" is forgotten
SegStep_stale_start(st, idx, line) ==
    LET cls == classify_heading(line, st.current_chapter)
        is_heading == cls # NotHeading
        opened == IF is_heading
                  THEN UpdateContext(CloseSegment(st, idx - 1), cls)
                  ELSE st
    IN  [opened EXCEPT !.current_lines = Append(@, rstrip_nl(line))]

\* one turn of the loop over enumerate(lines, start=1)
SegStep(st, idx, line) ==
    LET cls == classify_heading(line, st.current_chapter)
        is_heading == cls # NotHeading
        opened == IF is_heading
                  THEN [UpdateContext(CloseSegment(st, idx - 1), cls)
                           EXCEPT !.current_start_line = idx]
                  ELSE st
    IN  [opened EXCEPT !.current_lines = Append(@, rstrip_nl(line))]

RECURSIVE SegLoop(_, _, _)
\* the loop from line idx on
SegLoop(st, lines, idx) ==
    IF idx > Len(lines) THEN st
    ELSE SegLoop(SegStep(st, idx, lines[idx]), lines, idx + 1)

\* [seg for seg in segments if seg.word_count > 0]
NonEmptySegments(segments) == SelectSeq(segments, LAMBDA seg : word_count(seg) > 0)

\* every segment the loop and the final close append, before the filter
AllSegments(lines) == CloseSegment(SegLoop(SegInit, lines, 1), Len(lines)).segments

build_semantic_segments(lines) == NonEmptySegments(AllSegments(lines))

(***************************************************************************)
(* split_large_segment                                                     *)
(***************************************************************************)
IsTerminator(c) == c \in {".", "!", "?"}

RECURSIVE SentenceSplitFrom(_, _, _)
\* the pieces of s[start..] when the scan stands at i
SentenceSplitFrom(s, start, i) ==
    IF i > Len(s) THEN << SubSeq(s, start, Len(s)) >>
    ELSE IF i > 1 /\ IsTerminator(s[i - 1]) /\ IsSpace(s[i])
    THEN LET j == SkipSpace(s, i)
         IN  << SubSeq(s, start, i - 1) >> \o SentenceSplitFrom(s, j, j)
    ELSE SentenceSplitFrom(s, start, i + 1)

\* re.split(r"(?<=[.!?])\s+", s)
SentenceSplit(s) == SentenceSplitFrom(s, 1, 1)

\* a sub-segment: the original's provenance, the group joined into one line
SubSegment(seg, sentences) ==
    Segment(seg.start_line, seg.end_line, seg.chapter, seg.section, seg.heading,
            << Join(<< SP >>, sentences) >>)

\* a plausible slip: the group is closed only once it is already over the limit
PackSentence_late_flush(seg, max_words, acc, sent0) ==
    LET sent == strip(sent0)
        wc == Len(split(sent))
    IN  IF sent = << >> THEN acc
        ELSE IF acc.current_sentences # << >> /\ acc.current_wc > max_words
        THEN [chunks |-> Append(acc.chunks, SubSegment(seg, acc.current_sentences)),
              current_sentences |-> << sent >>,
              current_wc |-> wc]
        ELSE [chunks |-> acc.chunks,
              current_sentences |-> Append(acc.current_sentences, sent),
              current_wc |-> acc.current_wc + wc]

\* one turn of "for sent in sentences"
PackSentence(seg, max_words, acc, sent0) ==
    LET sent == strip(sent0)
        wc == Len(split(sent))
    IN  IF sent = << >> THEN acc
        ELSE IF acc.current_sentences # << >> /\ acc.current_wc + wc > max_words
        THEN [chunks |-> Append(acc.chunks, SubSegment(seg, acc.current_sentences)),
              current_sentences |-> << sent >>,
              current_wc |-> wc]
        ELSE [chunks |-> acc.chunks,
              current_sentences |-> Append(acc.current_sentences, sent),
              current_wc |-> acc.current_wc + wc]

RECURSIVE PackLoop(_, _, _, _)
PackLoop(seg, max_words, acc, sentences) ==
    IF sentences = << >> THEN acc
    ELSE PackLoop(seg, max_words, PackSentence(seg, max_words, acc, Head(sentences)),
                  Tail(sentences))

split_large_segment(seg, max_words) ==
    IF word_count(seg) <= max_words THEN << seg >>
    ELSE LET acc == PackLoop(seg, max_words,
                             [chunks |-> << >>, current_sentences |-> << >>,
                              current_wc |-> 0],
                             SentenceSplit(text(seg)))
         IN  IF acc.current_sentences # << >>
             THEN Append(acc.chunks, SubSegment(seg, acc.current_sentences))
             ELSE acc.chunks

(***************************************************************************)
(* enforce_size_constraints                                                *)
(***************************************************************************)
\* Python's "a or b" on Optional[str]: None and "" are falsy
PyOr(a, b) == IF a # None /\ a[1] # << >> THEN a ELSE b

\* a plausible slip: the incoming segment's labels win
Combine_later_labels(buffer_seg, seg) ==
    Segment(buffer_seg.start_line, seg.end_line,
            PyOr(seg.chapter, buffer_seg.chapter),
            PyOr(seg.section, buffer_seg.section),
            PyOr(seg.heading, buffer_seg.heading),
            buffer_seg.text_lines \o seg.text_lines)

\* a plausible slip: the incoming segment's lines replace the buffer's
Combine_drop_buffer_lines(buffer_seg, seg) ==
    Segment(buffer_seg.start_line, seg.end_line,
            PyOr(buffer_seg.chapter, seg.chapter),
            PyOr(buffer_seg.section, seg.section),
            PyOr(buffer_seg.heading, seg.heading),
            seg.text_lines)

\* the segment that merges the buffer with the next segment
Combine(buffer_seg, seg) ==
    Segment(buffer_seg.start_line, seg.end_line,
            PyOr(buffer_seg.chapter, seg.chapter),
            PyOr(buffer_seg.section, seg.section),
            PyOr(buffer_seg.heading, seg.heading),
            buffer_seg.text_lines \o seg.text_lines)

\* a plausible slip: the merge test reads the incoming segment, not the buffer
MergeStep_tests_incoming(min_words, acc, seg) ==
    IF acc.buffer_seg = None
    THEN [acc EXCEPT !.buffer_seg = Some(seg)]
    ELSE IF word_count(seg) < min_words
    THEN [acc EXCEPT !.buffer_seg = Some(Combine(acc.buffer_seg[1], seg))]
    ELSE [merged |-> Append(acc.merged, acc.buffer_seg[1]), buffer_seg |-> Some(seg)]

\* one turn of "for seg in segments" of the merge pass
MergeStep(min_words, acc, seg) ==
    IF acc.buffer_seg = None
    THEN [acc EXCEPT !.buffer_seg = Some(seg)]
    ELSE IF word_count(acc.buffer_seg[1]) < min_words
    THEN [acc EXCEPT !.buffer_seg = Some(Combine(acc.buffer_seg[1], seg))]
    ELSE [merged |-> Append(acc.merged, acc.buffer_seg[1]), buffer_seg |-> Some(seg)]

RECURSIVE MergeLoop(_, _, _)
MergeLoop(min_words, acc, segments) ==
    IF segments = << >> THEN acc
    ELSE MergeLoop(min_words, MergeStep(min_words, acc, Head(segments)), Tail(segments))

\* the merge pass and its final flush_buffer(): the list "merged"
MergeSmall(segments, min_words) ==
    LET acc == MergeLoop(min_words, [merged |-> << >>, buffer_seg |-> None], segments)
    IN  IF acc.buffer_seg # None THEN Append(acc.merged, acc.buffer_seg[1])
        ELSE acc.merged

\* a plausible slip: the sub-segments are dropped and the segment kept whole
SplitLarge_keeps_whole(merged, max_words) == merged

RECURSIVE SplitLarge(_, _)
\* the split pass: the list "final_chunks"
SplitLarge(merged, max_words) ==
    IF merged = << >> THEN << >>
    ELSE (IF word_count(Head(merged)) > max_words
          THEN split_large_segment(Head(merged), max_words)
          ELSE << Head(merged) >>) \o SplitLarge(Tail(merged), max_words)

enforce_size_constraints(segments, min_words, max_words) ==
    SplitLarge(MergeSmall(segments, min_words), max_words)

(***************************************************************************)
(* chunks_to_json_dicts and attach_embeddings_to_json_chunks               *)
(***************************************************************************)
\* the vector the external model returns for a text; its numbers are not modelled
EncodedVector == << "vector" >>

\* one dict per chunk; the key "embedding" is absent (None) until attached
chunks_to_json_dicts(chunks) ==
    [i \in 1..Len(chunks) |->
        [id |-> i - 1,
         chapter |-> chunks[i].chapter,
         section |-> chunks[i].section,
         heading |-> chunks[i].heading,
         start_line |-> chunks[i].start_line,
         end_line |-> chunks[i].end_line,
         word_count |-> word_count(chunks[i]),
         text |-> text(chunks[i]),
         embedding |-> None]]

\* json_chunks after a successful model.encode and the loop that attaches
attach_embeddings_to_json_chunks(json) ==
    [i \in 1..Len(json) |-> [json[i] EXCEPT !.embedding = Some(EncodedVector)]]

(***************************************************************************)
(* The inputs                                                              *)
(***************************************************************************)
BLANK_LINE == <<"\n">>
OK_LINE == <<"O", "k", ".", "\n">>
CHAPTER_1_LINE == <<"C", "H", "A", "P", "T", "E", "R", " ", "1", ".", "\n">>
CHAPTER_2_LINE == <<"C", "H", "A", "P", "T", "E", "R", " ", "2", ".", "\n">>
INTRO_LINE ==
    <<"I", "n", "t", "r", "o", " ", "t", "e", "x", "t", " ", "h", "e", "r", "e", ".", "\n">>
SECTION_LINE == <<"1", ".", "1", " ", "B", "a", "s", "i", "c", "s", "\n">>
MORE_LINE == <<"M", "o", "r", "e", " ", "c", "o", "n", "t", "e", "n", "t", ".", "\n">>
GLOSSARY_LINE == <<"G", "l", "o", "s", "s", "a", "r", "y", "\n">>

\* the lines of the input files of the main pipeline
PipeLines == {BLANK_LINE, OK_LINE, CHAPTER_1_LINE, SECTION_LINE}

\* the lines of the inputs of build_semantic_segments
SegLines ==
    {BLANK_LINE, CHAPTER_1_LINE, CHAPTER_2_LINE, INTRO_LINE, SECTION_LINE, MORE_LINE,
     GLOSSARY_LINE}

\* the whitespace-separated tokens of the lines handed to classify_heading
Tokens ==
    {<<"C", "H", "A", "P", "T", "E", "R">>,
     <<"c", "h", "a", "p", "t", "e", "r">>,
     <<"1", ".">>,
     <<"1", ".", "1">>,
     <<"g", "l", "o", "s", "s", "a", "r", "y">>,
     <<"G", "L", "O", "S", "S", "A", "R", "Y", ".">>,
     <<"m", "y", "g", "l", "o", "s", "s", "a", "r", "y">>,
     <<"t", "e", "r", "m", "s">>}
Indents == {<< >>, <<" ", " ", " ">>}
ClassifyLines ==
    {ind \o Join(<< SP >>, toks) \o << NL >> :
        ind \in Indents, toks \in UNION {[1..k -> Tokens] : k \in 0..MaxTokens}}
TrackedChapters == {None, Some(<<"1">>), Some(GLOSSARY_LABEL)}

\* every non-empty sequence of at most n lines of P
Inputs(P, n) == UNION {[1..k -> P] : k \in 1..n}

\* the --min-words / --max-words pairs: positive, min_words <= max_words
Windows == {w \in (1..MaxWords) \X (1..MaxWords) : w[1] <= w[2]}

(***************************************************************************)
(* main                                                                    *)
(***************************************************************************)
VARIABLES
    args,               \* parse_args(): min_words, max_words, no_embeddings
    lines,              \* the lines of the input file
    pc,                 \* where main stands
    semantic_segments,
    merged,             \* the list "merged" of enforce_size_constraints
    sized_chunks,
    json_chunks,
    output,             \* the output file: None until json.dump wrote it
    raised,             \* the exception that left main, None without one
    classified          \* a call of classify_heading on its own

vars ==
    << args, lines, pc, semantic_segments, merged, sized_chunks, json_chunks, output,
       raised, classified >>

NoCall == [line |-> << >>, current_chapter |-> None, done |-> TRUE, result |-> NotHeading]

Init ==
    /\ lines \in Inputs(PipeLines, MaxLines)
    /\ \E w \in Windows, ne \in BOOLEAN :
           args = [min_words |-> w[1], max_words |-> w[2], no_embeddings |-> ne]
    /\ pc = "start"
    /\ semantic_segments = << >>
    /\ merged = << >>
    /\ sized_chunks = << >>
    /\ json_chunks = << >>
    /\ output = None
    /\ raised = None
    /\ classified = NoCall

\* args.input.open(...) raises: the file is missing
InputOpenFails ==
    /\ pc = "start"
    /\ pc' = "raised"
    /\ raised' = Some("FileNotFoundError")
    /\ UNCHANGED << args, lines, semantic_segments, merged, sized_chunks, json_chunks, output,
                    classified >>

BuildSegments ==
    /\ pc = "start"
    /\ semantic_segments' = build_semantic_segments(lines)
    /\ pc' = "segmented"
    /\ UNCHANGED << args, lines, merged, sized_chunks, json_chunks, output, raised,
                    classified >>

EnforceSize ==
    /\ pc = "segmented"
    /\ merged' = MergeSmall(semantic_segments, args.min_words)
    /\ sized_chunks' =
           enforce_size_constraints(semantic_segments, args.min_words, args.max_words)
    /\ pc' = "sized"
    /\ UNCHANGED << args, lines, semantic_segments, json_chunks, output, raised,
                    classified >>

ToJson ==
    /\ pc = "sized"
    /\ json_chunks' = chunks_to_json_dicts(sized_chunks)
    /\ pc' = "json"
    /\ UNCHANGED << args, lines, semantic_segments, merged, sized_chunks, output, raised,
                    classified >>

\* the exceptions attach_embeddings_to_json_chunks lets out: the import's
\* RuntimeError, and whatever SentenceTransformer(...) or model.encode raise
EmbeddingErrors == {"RuntimeError", "ModelLoadError", "EncodeError"}

\* a plausible slip: main swallows the exception and goes on to write
HandleEmbeddingError_swallow(e) ==
    /\ pc' = "embedded"
    /\ raised' = None

\* "except Exception: raise": the exception leaves main
HandleEmbeddingError(e) ==
    /\ pc' = "raised"
    /\ raised' = Some(e)

AttachEmbeddingsFails ==
    /\ pc = "json"
    /\ ~args.no_embeddings
    /\ \E e \in EmbeddingErrors : HandleEmbeddingError(e)
    /\ UNCHANGED << args, lines, semantic_segments, merged, sized_chunks, json_chunks, output,
                    classified >>

AttachEmbeddings ==
    /\ pc = "json"
    /\ ~args.no_embeddings
    /\ json_chunks' = attach_embeddings_to_json_chunks(json_chunks)
    /\ pc' = "embedded"
    /\ UNCHANGED << args, lines, semantic_segments, merged, sized_chunks, output, raised,
                    classified >>

SkipEmbeddings ==
    /\ pc = "json"
    /\ args.no_embeddings
    /\ pc' = "embedded"
    /\ UNCHANGED << args, lines, semantic_segments, merged, sized_chunks, json_chunks, output,
                    raised, classified >>

\* args.output.open("w") and json.dump
WriteOutput ==
    /\ pc = "embedded"
    /\ output' = Some(json_chunks)
    /\ pc' = "written"
    /\ UNCHANGED << args, lines, semantic_segments, merged, sized_chunks, json_chunks, raised,
                    classified >>

Next ==
    \/ InputOpenFails
    \/ BuildSegments
    \/ EnforceSize
    \/ ToJson
    \/ AttachEmbeddingsFails
    \/ AttachEmbeddings
    \/ SkipEmbeddings
    \/ WriteOutput

Spec == Init /\ [][Next]_vars

(***************************************************************************)
(* build_semantic_segments on its own                                      *)
(***************************************************************************)
InitSeg ==
    /\ lines \in Inputs(SegLines, MaxSegLines)
    /\ args = [min_words |-> 1, max_words |-> 1, no_embeddings |-> TRUE]
    /\ pc = "start"
    /\ semantic_segments = << >>
    /\ merged = << >>
    /\ sized_chunks = << >>
    /\ json_chunks = << >>
    /\ output = None
    /\ raised = None
    /\ classified = NoCall

SpecSeg == InitSeg /\ [][BuildSegments]_vars

(***************************************************************************)
(* classify_heading on its own                                             *)
(***************************************************************************)
InitClassify ==
    /\ \E l \in ClassifyLines, ch \in TrackedChapters :
           classified = [line |-> l, current_chapter |-> ch, done |-> FALSE,
                         result |-> NotHeading]
    /\ lines = << >>
    /\ args = [min_words |-> 1, max_words |-> 1, no_embeddings |-> TRUE]
    /\ pc = "idle"
    /\ semantic_segments = << >>
    /\ merged = << >>
    /\ sized_chunks = << >>
    /\ json_chunks = << >>
    /\ output = None
    /\ raised = None

Classify ==
    /\ ~classified.done
    /\ classified' =
           [classified EXCEPT
               !.done = TRUE,
               !.result = classify_heading(classified.line, classified.current_chapter)]
    /\ UNCHANGED << args, lines, pc, semantic_segments, merged, sized_chunks, json_chunks, output,
                    raised >>

SpecClassify == InitClassify /\ [][Classify]_vars

(***************************************************************************)
(* Properties                                                              *)
(***************************************************************************)
IsBlank(line) == strip(line) = << >>

\* the returned segments whose line range holds line n
Covering(segs, n) == {i \in 1..Len(segs) : segs[i].start_line <= n /\ n <= segs[i].end_line}

\* C1, as claimed: the line ranges of the segments build_semantic_segments returns
\* are contiguous and every line 1..N, blank or not, lies in exactly one of them.
C1_ExactCover ==
    pc = "segmented" =>
        /\ \A i \in 1..(Len(semantic_segments) - 1) :
               semantic_segments[i + 1].start_line = semantic_segments[i].end_line + 1
        /\ \A n \in 1..Len(lines) : Cardinality(Covering(semantic_segments, n)) = 1

\* C1, amended: the ranges lie in 1..N, are contiguous and do not overlap, and every
\* line lies in exactly one returned segment, except the blank lines of a leading run
\* of blank lines (the lines before the first heading line when all of them are blank,
\* or a wholly blank input), which lie in none: their zero-word segment is filtered.
C1_CoverExceptLeadingBlanks ==
    pc = "segmented" =>
        /\ \A i \in 1..Len(semantic_segments) :
               /\ 1 <= semantic_segments[i].start_line
               /\ semantic_segments[i].start_line <= semantic_segments[i].end_line
               /\ semantic_segments[i].end_line <= Len(lines)
        /\ \A i \in 1..(Len(semantic_segments) - 1) :
               semantic_segments[i + 1].start_line = semantic_segments[i].end_line + 1
        /\ \A n \in 1..Len(lines) :
               \/ Cardinality(Covering(semantic_segments, n)) = 1
               \/ /\ Covering(semantic_segments, n) = {}
                  /\ \A m \in 1..n : IsBlank(lines[m])
                  /\ n < Len(lines) => (IsBlank(lines[n + 1]) \/
                                        classify_heading(lines[n + 1], None) # NotHeading)

\* a blank first line was dropped with its segment, and the segments after it returned
C1_Witness ==
    /\ pc = "segmented"
    /\ IsBlank(lines[1])
    /\ Len(lines) >= 3
    /\ Len(semantic_segments) >= 2
    /\ semantic_segments[1].start_line = 2

\* the input of the spec's first example scenario
ExampleLines == << CHAPTER_1_LINE, INTRO_LINE, SECTION_LINE, MORE_LINE >>

\* C5, as claimed: the example's four lines yield exactly 3 segments, the first with
\* chapter "1", heading "Chapter 1" and the text "CHAPTER 1." alone.
C5_ThreeSegments ==
    (pc = "segmented" /\ lines = ExampleLines) =>
        /\ Len(semantic_segments) = 3
        /\ semantic_segments[1].chapter = Some(<<"1">>)
        /\ semantic_segments[1].heading = Some(CHAPTER_PREFIX \o <<"1">>)
        /\ text(semantic_segments[1]) = rstrip_nl(CHAPTER_1_LINE)

\* C5, amended: the example's four lines yield exactly 2 segments; the first (lines
\* 1-2) has chapter "1", no section, heading "Chapter 1" and the text of the chapter
\* marker line followed by the body line; the second (lines 3-4) has chapter "1",
\* section "1.1", heading "Basics" and the text of the last two lines.
C5_TwoSegments ==
    (pc = "segmented" /\ lines = ExampleLines) =>
        /\ Len(semantic_segments) = 2
        /\ semantic_segments[1] =
               Segment(1, 2, Some(<<"1">>), None, Some(CHAPTER_PREFIX \o <<"1">>),
                       << rstrip_nl(CHAPTER_1_LINE), rstrip_nl(INTRO_LINE) >>)
        /\ text(semantic_segments[1]) =
               rstrip_nl(CHAPTER_1_LINE) \o << SP >> \o rstrip_nl(INTRO_LINE)
        /\ semantic_segments[2] =
               Segment(3, 4, Some(<<"1">>), Some(<<"1", ".", "1">>),
                       Some(<<"B", "a", "s", "i", "c", "s">>),
                       << rstrip_nl(SECTION_LINE), rstrip_nl(MORE_LINE) >>)
        /\ text(semantic_segments[2]) =
               rstrip_nl(SECTION_LINE) \o << SP >> \o rstrip_nl(MORE_LINE)

C5_Witness == pc = "segmented" /\ lines = ExampleLines /\ Len(semantic_segments) = 2

\* the three kinds of marker line
IsGlossaryMarker(line) == GLOSSARY_RE(strip(line))
IsChapterMarker(line) == CHAPTER_RE(strip(line)) # None
IsSectionMarker(line) ==
    ~IsGlossaryMarker(line) /\ ~IsChapterMarker(line) /\ SECTION_RE(strip(line)) # None

\* C10: a returned segment that starts at a chapter marker or a glossary marker has
\* no section, whatever section was tracked before; a returned segment that starts at
\* a numbered-section marker carries the chapter tracked before that line (the segment
\* before it, none before the first heading), so the marker never clears the chapter.
C10_SectionResetChapterKept ==
    pc = "segmented" =>
        \A i \in 1..Len(semantic_segments) :
            LET seg == semantic_segments[i]
                first == lines[seg.start_line]
            IN  /\ (IsChapterMarker(first) \/ IsGlossaryMarker(first)) => seg.section = None
                /\ IsSectionMarker(first) =>
                       /\ seg.section # None
                       /\ seg.chapter = IF i = 1 THEN None
                                        ELSE semantic_segments[i - 1].chapter

\* a section was tracked, a chapter marker reset it, and a section marker after it
\* kept the chapter
C10_Witness ==
    /\ pc = "segmented"
    /\ \E i \in 2..(Len(semantic_segments) - 1) :
           /\ semantic_segments[i - 1].section # None
           /\ IsChapterMarker(lines[semantic_segments[i].start_line])
           /\ semantic_segments[i].section = None
           /\ IsSectionMarker(lines[semantic_segments[i + 1].start_line])
           /\ semantic_segments[i + 1].chapter = semantic_segments[i].chapter
           /\ semantic_segments[i + 1].chapter # None

\* s holds the word w: a maximal run of word characters of s that is w, case ignored
HasWord(s, w) ==
    \E a \in 1..Len(s) :
        LET b == a + Len(w) - 1
        IN  /\ b <= Len(s)
            /\ \A k \in a..b : IsWordChar(s[k])
            /\ a > 1 => ~IsWordChar(s[a - 1])
            /\ b < Len(s) => ~IsWordChar(s[b + 1])
            /\ [k \in 1..Len(w) |-> Fold(s[a + k - 1])] = w

GlossaryHeading == << Some(GLOSSARY_LABEL), None, Some(GLOSSARY_LABEL) >>

\* C6: a line that holds the word "glossary" in any case classifies as ("Glossary",
\* None, "Glossary") under every tracked chapter, also when it matches the chapter
\* pattern or the numbered-section pattern.
C6_GlossaryFirst ==
    (classified.done /\ HasWord(classified.line, GLOSSARY_WORD)) =>
        classified.result = GlossaryHeading

\* a line that is a chapter marker and holds the word was classified as the glossary
C6_Witness ==
    /\ classified.done
    /\ HasWord(classified.line, GLOSSARY_WORD)
    /\ CHAPTER_RE(strip(classified.line)) # None
    /\ classified.current_chapter # None
    /\ classified.result = GlossaryHeading

RECURSIVE WordsOfStrings(_)
\* the whitespace-separated words of the strings, in order
WordsOfStrings(ss) ==
    IF ss = << >> THEN << >> ELSE split(Head(ss)) \o WordsOfStrings(Tail(ss))

\* C2: the words of the final chunks' texts, in output order, are the words of the
\* input lines, in input order: none lost, none repeated.
C2_WordsPreserved ==
    pc = "sized" =>
        WordsOfStrings([i \in 1..Len(sized_chunks) |-> text(sized_chunks[i])])
            = WordsOfStrings(lines)

\* segments were merged and a merged segment was split
C2_Witness ==
    /\ pc = "sized"
    /\ args.min_words <= args.max_words
    /\ Len(merged) < Len(semantic_segments)
    /\ Len(sized_chunks) > Len(merged)
    /\ \E i \in 1..Len(lines) : IsBlank(lines[i])

\* the sentence pieces split_large_segment finds in a text
Pieces(s) == SelectSeq(SentenceSplit(s), LAMBDA piece : strip(piece) # << >>)

\* one sentence piece, itself over the limit
OversizedSentence(chunk) ==
    Len(Pieces(text(chunk))) = 1 /\ word_count(chunk) > args.max_words

\* the merged segment a chunk was passed through or split from
Origin(chunk) ==
    merged[CHOOSE k \in 1..Len(merged) : merged[k].start_line = chunk.start_line]

WasSplit(chunk) == word_count(Origin(chunk)) > args.max_words

\* C3, as claimed: every chunk but the first and the last has its word count in
\* [min_words, max_words], unless it is one sentence piece over max_words.
C3_WindowSatisfied ==
    (pc = "sized" /\ args.min_words <= args.max_words) =>
        \A i \in 2..(Len(sized_chunks) - 1) :
            \/ /\ args.min_words <= word_count(sized_chunks[i])
               /\ word_count(sized_chunks[i]) <= args.max_words
            \/ OversizedSentence(sized_chunks[i])

\* C3, amended: every chunk but the first and the last has at most max_words words
\* unless it is one sentence piece over max_words, and at least min_words words
\* unless it is a sub-segment of a merged segment that was over max_words and split.
C3_WindowSatisfiedUnlessSplit ==
    (pc = "sized" /\ args.min_words <= args.max_words) =>
        \A i \in 2..(Len(sized_chunks) - 1) :
            /\ \/ word_count(sized_chunks[i]) <= args.max_words
               \/ OversizedSentence(sized_chunks[i])
            /\ \/ args.min_words <= word_count(sized_chunks[i])
               \/ WasSplit(sized_chunks[i])

\* a chunk in the middle, under min_words, left by a split
C3_Witness ==
    /\ pc = "sized"
    /\ args.min_words <= args.max_words
    /\ \E i \in 2..(Len(sized_chunks) - 1) :
           /\ word_count(sized_chunks[i]) < args.min_words
           /\ ~OversizedSentence(sized_chunks[i])
           /\ WasSplit(sized_chunks[i])

\* the segments of build_semantic_segments merged into a chunk, in order
Contributors(chunk) ==
    SelectSeq(semantic_segments,
              LAMBDA seg : chunk.start_line <= seg.start_line
                           /\ seg.start_line <= chunk.end_line)

\* the label f of the first segment of segs that has one, None when none has
FirstPresent(segs, f) ==
    LET have == {i \in 1..Len(segs) : segs[i][f] # None}
    IN  IF have = {} THEN None
        ELSE segs[CHOOSE i \in have : \A j \in have : i <= j][f]

Labels == {"chapter", "section", "heading"}

\* C4, as claimed: each label of a chunk is that label of the first segment merged
\* into it.
C4_FirstSegmentLabels ==
    pc = "sized" =>
        \A i \in 1..Len(sized_chunks) : \A f \in Labels :
            sized_chunks[i][f] = Contributors(sized_chunks[i])[1][f]

\* C4, amended: each label of a chunk is that label of the first segment merged into
\* it that has the label, and absent when no merged segment has it; so a later
\* segment's label appears on the chunk exactly when every segment before it in the
\* merge run lacks that label.
C4_FirstPresentLabels ==
    pc = "sized" =>
        \A i \in 1..Len(sized_chunks) : \A f \in Labels :
            sized_chunks[i][f] = FirstPresent(Contributors(sized_chunks[i]), f)

\* a chunk carries the chapter of the second segment merged into it: the first has none
C4_Witness ==
    /\ pc = "sized"
    /\ \E i \in 1..Len(sized_chunks) :
           LET from == Contributors(sized_chunks[i])
           IN  /\ Len(from) >= 2
               /\ from[1].chapter = None
               /\ from[2].chapter # None
               /\ sized_chunks[i].chapter = from[2].chapter

\* C7: once the embedding step has failed the exception has left main, main does
\* nothing more and the output file is not written; the output file is written
\* only after the embedding step attached a vector to every chunk or with
\* --no-embeddings set.
C7_NoOutputAfterEmbeddingFailure ==
    /\ raised # None => (pc = "raised" /\ output = None /\ ~ENABLED Next)
    /\ output # None =>
           /\ raised = None
           /\ \/ args.no_embeddings
              \/ \A i \in 1..Len(output[1]) : output[1][i].embedding # None

\* the embedding step failed on a run with chunks to write
C7_Witness ==
    /\ pc = "raised"
    /\ raised \in {Some(e) : e \in EmbeddingErrors}
    /\ ~args.no_embeddings
    /\ json_chunks # << >>
    /\ output = None

\* C8: a sub-segment of a segment that was over max_words and split has at most
\* max_words words or is exactly one sentence piece.
C8_SplitBounded ==
    pc = "sized" =>
        \A i \in 1..Len(sized_chunks) :
            WasSplit(sized_chunks[i]) =>
                \/ word_count(sized_chunks[i]) <= args.max_words
                \/ Len(Pieces(text(sized_chunks[i]))) = 1

\* a split left a sub-segment of several pieces, and one oversized sentence alone
C8_Witness ==
    /\ pc = "sized"
    /\ \E i \in 1..Len(sized_chunks) :
           /\ WasSplit(sized_chunks[i])
           /\ Len(Pieces(text(sized_chunks[i]))) >= 2
    /\ \E i \in 1..Len(sized_chunks) :
           /\ WasSplit(sized_chunks[i])
           /\ OversizedSentence(sized_chunks[i])

\* C9: after the merge pass every merged segment but the last has at least
\* min_words words.
C9_MergedAtLeastMin ==
    pc = "sized" =>
        \A i \in 1..(Len(merged) - 1) : word_count(merged[i]) >= args.min_words

\* segments were merged, and the last merged segment is under min_words
C9_Witness ==
    /\ pc = "sized"
    /\ Len(merged) >= 2
    /\ Len(merged) < Len(semantic_segments)
    /\ word_count(merged[Len(merged)]) < args.min_words

=============================================================================
